---- MODULE Spec2Model ----
(***************************************************************************)
(* Model of splunk_logging.forwarders.HecForwarder: the timestamp          *)
(* normalizer (_parse_timestamp), the response hook that implements the    *)
(* retry policy (_client_retry), forward_event and forward_events; of      *)
(* splunk_logging.formatters.JsonFormatter.format; and of                  *)
(* splunk_logging.handlers.HecHandler.emit.                                *)
(*                                                                         *)
(* The httpx client calls the response hook from inside Client.send, after *)
(* the response has been received and before send returns.  The hook       *)
(* resends by calling Client.send again, so the sends of one call nest:    *)
(* the i-th element of a call's `responses` is the response received at    *)
(* nesting depth i, and the value Client.post returns to forward_event is  *)
(* the response of the outermost send, responses[1].                       *)
(***************************************************************************)
EXTENDS Integers, Sequences, FiniteSets, TLC

(* ------------------------------ bounds ------------------------------- *)

\* forward_event calls started in one behaviour (direct or from a batch)
MaxCalls == 2

\* longest list handed to forward_events
MaxBatch == 3

\* largest naive wall-clock reading (in whole seconds) used as an input
MaxWall == 1

\* most requests one call sends on a forwarder shared by two threads
MaxSends == 5

(* ------------------------- program constants ------------------------- *)

REQUEST_TIMEOUT == 408
TOO_MANY_REQUESTS == 429
INTERNAL_SERVER_ERROR == 500
SERVICE_UNAVAILABLE == 503
OK == 200
BAD_REQUEST == 400

\* forwarders.py:104-109
retry_codes ==
    {REQUEST_TIMEOUT, TOO_MANY_REQUESTS, INTERNAL_SERVER_ERROR, SERVICE_UNAVAILABLE}

\* the statuses the collector answers with in the model
Statuses == retry_codes \cup {OK, BAD_REQUEST}

\* httpx.Response.is_success: a 2xx status
is_success(status_code) == status_code >= 200 /\ status_code <= 299

\* the two caller threads a forwarder may be shared by
Threads == {1, 2}

\* the keyword arguments forward_event reads
FieldKeys == {"host", "source", "sourcetype", "index"}

(* --------------------------- dictionaries ---------------------------- *)

EmptyDict == [k \in {} |-> ""]

\* d[k] = v of a Python dict
Put(d, k, v) == [x \in (DOMAIN d) \cup {k} |-> IF x = k THEN v ELSE d[x]]

\* dict.get(k, default)
Get(d, k, default) == IF k \in DOMAIN d THEN d[k] ELSE default

(* ----------------------- timestamp normalizer ------------------------ *)

\* offset of the local time zone from UTC, in seconds of the model's clock
TzOffset == 1

Digits == <<"0", "1", "2", "3", "4", "5", "6", "7", "8", "9">>

DigitChars == {Digits[i] : i \in 1..Len(Digits)}

DigitVal(ch) == (CHOOSE i \in 1..Len(Digits) : Digits[i] = ch) - 1

\* the values a caller may hand over as eventtime
NoneValue == [type |-> "NoneType"]
DateTime(w) == [type |-> "datetime", wall |-> w]
IntValue(n) == [type |-> "int", v |-> n]
FloatValue(n) == [type |-> "float", v |-> n]
StrValue(s) == [type |-> "str", s |-> s]
ListValue(n) == [type |-> "list", len |-> n]

\* Python truthiness, as used by `eventtime or datetime.now()`
Truthy(x) ==
    CASE x.type = "NoneType" -> FALSE
      [] x.type = "datetime" -> TRUE
      [] x.type \in {"int", "float"} -> x.v # 0
      [] x.type = "str" -> Len(x.s) > 0
      [] x.type = "list" -> x.len > 0

\* datetime.timestamp() of a naive datetime: local wall clock -> epoch
timestamp(dt) == dt.wall - TzOffset

\* datetime.utcfromtimestamp(ts): epoch -> naive UTC wall clock
utcfromtimestamp(ts) == DateTime(ts)

\* datetime.fromtimestamp(ts): epoch -> naive local wall clock
fromtimestamp(ts) == DateTime(ts + TzOffset)

\* datetime.isoformat(): the wall clock written as "T" and one digit
isoformat(dt) == <<"T", Digits[dt.wall + 1]>>

\* the explicit format that matches isoformat(): literal T, one %S field
IsoFmt == <<"T", "%">>

Raised == [ok |-> FALSE]
Returned(v) == [ok |-> TRUE, v |-> v]

\* dateutil.parser.isoparse: accepts exactly the isoformat() shape
isoparse(s) ==
    IF Len(s) = 2 /\ s[1] = "T" /\ s[2] \in DigitChars
    THEN Returned(DateTime(DigitVal(s[2])))
    ELSE Raised

\* datetime.strptime(s, fmt): every "%" of fmt consumes one digit of s and
\* every other character of fmt must match s literally
strptime(s, fmt) ==
    IF /\ Len(s) = Len(fmt)
       /\ \A i \in 1..Len(fmt) :
            IF fmt[i] = "%" THEN s[i] \in DigitChars ELSE s[i] = fmt[i]
       /\ \E i \in 1..Len(fmt) : fmt[i] = "%"
    THEN LET i == CHOOSE j \in 1..Len(fmt) : fmt[j] = "%"
         IN  Returned(DateTime(DigitVal(s[i])))
    ELSE Raised

\* HecForwarder._parse_timestamp: Returned(epoch seconds) or Raised
\* (ValueError); timefmt = <<>> stands for timefmt=None
parse_timestamp(timeinfo, timefmt) ==
    CASE timeinfo.type = "datetime" -> Returned(timestamp(timeinfo))
      [] timeinfo.type \in {"int", "float"} ->
            Returned(timestamp(fromtimestamp(timeinfo.v)))
      [] timeinfo.type = "str" ->
            LET parsed == IF Len(timefmt) > 0
                          THEN strptime(timeinfo.s, timefmt)
                          ELSE isoparse(timeinfo.s)
            IN  IF parsed.ok THEN Returned(timestamp(parsed.v)) ELSE Raised
      [] OTHER -> Raised

\* str() of the float _parse_timestamp returns
FloatStr(ts) ==
    IF ts < 0 THEN <<"-", Digits[1 - ts], ".", "0">>
    ELSE <<Digits[ts + 1], ".", "0">>

(* ------------------------------- state -------------------------------- *)

VARIABLES
    client,     \* self._client: backoff_factor, max_retries, retry_attempt
    defaults,   \* self._default_host/_source/_sourcetype/_index
    callers,    \* the threads that use this forwarder
    pc,         \* per thread: where it stands in forward_event/forward_events
    call,       \* per thread: the frame of its current (or last) forward_event
    batch,      \* per thread: the frame of its current (or last) forward_events
    next_uuid,  \* the value the next uuid.uuid1() returns
    ncalls,     \* forward_event calls started so far
    handler,    \* a HecHandler on this forwarder: its flag and its emit calls
    formatter,  \* a JsonFormatter: its configuration, last record and output
    normalized  \* the last results of _parse_timestamp called on its own

vars == <<client, defaults, callers, pc, call, batch, next_uuid, ncalls,
          handler, formatter, normalized>>

NoRequest == [headers |-> 0, json |-> EmptyDict]

\* the frame of a thread that has not called forward_event yet
NoCall ==
    [event |-> "", eventtime |-> NoneValue, timefmt |-> <<>>, kwargs |-> EmptyDict,
     request |-> NoRequest, responses |-> <<>>, sleeps |-> <<>>, sends |-> <<>>,
     outcome |-> "none", error |-> 0, attempt0 |-> 0, loaded |-> 0]

\* the frame of a thread that is not inside forward_events
NoBatch ==
    [events |-> <<>>, eventtime |-> [e \in {} |-> NoneValue], timefmt |-> <<>>,
     kwargs |-> EmptyDict, i |-> 1, status |-> "none", sent |-> <<>>]

\* HecForwarder._create_client, lines 89-91
create_client == [backoff_factor |-> 1, max_retries |-> 3, retry_attempt |-> 0]

\* HecForwarder.__init__, lines 67-70: `x or fallback` for each default
init_defaults(default_host, default_source, default_sourcetype, default_index) ==
    [host |-> IF default_host # "" THEN default_host ELSE "hostname",
     source |-> default_source,
     sourcetype |-> default_sourcetype,
     index |-> default_index]

InitWith(threads, defs) ==
    /\ client = create_client
    /\ defaults \in defs
    /\ callers = threads
    /\ pc = [c \in Threads |-> "idle"]
    /\ call = [c \in Threads |-> NoCall]
    /\ batch = [c \in Threads |-> NoBatch]
    /\ next_uuid = 1
    /\ ncalls = 0

(* --------------------------- forward_event --------------------------- *)

\* forward_event lines 189-199: the envelope before `time` is set
envelope(event, host, source, sourcetype, index) ==
    LET e0 == Put(EmptyDict, "event", event)
        e1 == IF host # "" THEN Put(e0, "host", host) ELSE e0
        e2 == IF source # "" THEN Put(e1, "source", source) ELSE e1
        e3 == IF sourcetype # "" THEN Put(e2, "sourcetype", sourcetype) ELSE e2
        e4 == IF index # "" THEN Put(e3, "index", index) ELSE e3
    IN  e4

\* forward_event line 183: `eventtime or datetime.now()`
effective_eventtime(eventtime, now) ==
    IF Truthy(eventtime) THEN eventtime ELSE DateTime(now)

\* dict.get(k) or default: an empty per-call value falls back to the default
GetOr(d, k, default) == IF k \in DOMAIN d /\ d[k] # "" THEN d[k] ELSE default

\* an envelope built with `kwargs.get(k) or default`
build_event_get_or(event, eventtime, timefmt, kwargs, now) ==
    LET host == GetOr(kwargs, "host", defaults.host)
        source == GetOr(kwargs, "source", defaults.source)
        sourcetype == GetOr(kwargs, "sourcetype", defaults.sourcetype)
        index == GetOr(kwargs, "index", defaults.index)
        hec_event == envelope(event, host, source, sourcetype, index)
        parsed == parse_timestamp(effective_eventtime(eventtime, now), timefmt)
    IN  IF parsed.ok
        THEN Returned(Put(hec_event, "time", FloatStr(parsed.v)))
        ELSE Raised

\* forward_event lines 183-201: Returned(hec_event) or Raised (ValueError)
build_event(event, eventtime, timefmt, kwargs, now) ==
    LET host == Get(kwargs, "host", defaults.host)
        source == Get(kwargs, "source", defaults.source)
        sourcetype == Get(kwargs, "sourcetype", defaults.sourcetype)
        index == Get(kwargs, "index", defaults.index)
        hec_event == envelope(event, host, source, sourcetype, index)
        parsed == parse_timestamp(effective_eventtime(eventtime, now), timefmt)
    IN  IF parsed.ok
        THEN Returned(Put(hec_event, "time", FloatStr(parsed.v)))
        ELSE Raised

\* a loop that catches the error of an event and goes on with the next one
AfterCall_continue(b, outcome) ==
    IF b.status = "running"
    THEN [pc |-> "loop", batch |-> [b EXCEPT !.i = b.i + 1]]
    ELSE [pc |-> "idle", batch |-> b]

\* where a thread continues when its forward_event ends with `outcome`:
\* inside forward_events the loop goes on, or the error leaves the loop and
\* forward_events raises it
AfterCall(b, outcome) ==
    IF b.status = "running"
    THEN IF outcome # "ok"
         THEN [pc |-> "idle", batch |-> [b EXCEPT !.status = outcome]]
         ELSE [pc |-> "loop", batch |-> [b EXCEPT !.i = b.i + 1]]
    ELSE [pc |-> "idle", batch |-> b]

\* forward_event lines 183-203, entered by thread c with batch frame b
Enter(c, b, event, eventtime, timefmt, kwargs, now) ==
    LET built == build_event(event, eventtime, timefmt, kwargs, now)
        frame == [NoCall EXCEPT !.event = event, !.eventtime = eventtime,
                                !.timefmt = timefmt, !.kwargs = kwargs,
                                !.attempt0 = client.retry_attempt]
    IN  /\ ncalls' = ncalls + 1
        /\ IF built.ok
           THEN /\ call' = [call EXCEPT ![c] =
                       [frame EXCEPT !.outcome = "running",
                                     !.request = [headers |-> next_uuid,
                                                  json |-> built.v]]]
                /\ next_uuid' = next_uuid + 1
                /\ pc' = [pc EXCEPT ![c] = "post"]
                /\ batch' = [batch EXCEPT ![c] = b]
           ELSE /\ call' = [call EXCEPT ![c] = [frame EXCEPT !.outcome = "ValueError"]]
                /\ next_uuid' = next_uuid
                /\ pc' = [pc EXCEPT ![c] = AfterCall(b, "ValueError").pc]
                /\ batch' = [batch EXCEPT ![c] = AfterCall(b, "ValueError").batch]
        /\ UNCHANGED <<client, defaults, callers, formatter, normalized>>

\* a caller invokes forward_event(event, eventtime, timefmt, **kwargs)
ForwardEvent(c, event, eventtime, timefmt, kwargs, now) ==
    /\ c \in callers
    /\ pc[c] = "idle"
    /\ ncalls < MaxCalls
    /\ Enter(c, NoBatch, event, eventtime, timefmt, kwargs, now)
    /\ UNCHANGED handler

\* the call of thread c ends with `outcome`, its batch frame being b; error
\* is the status of the response the HTTPStatusError carries
Leave(c, b, frame, outcome, error) ==
    LET after == AfterCall(b, outcome)
    IN  /\ call' = [call EXCEPT ![c] = [frame EXCEPT !.outcome = outcome, !.error = error]]
        /\ pc' = [pc EXCEPT ![c] = after.pc]
        /\ batch' = [batch EXCEPT ![c] = after.batch]

\* the batch frame of thread c once a request for its current event went out
Sending(c) ==
    IF batch[c].status = "running"
    THEN [batch[c] EXCEPT !.sent = Append(@, batch[c].i)]
    ELSE batch[c]

\* httpx Client.send of `request` by thread c, answered with status_code:
\* the response hook runs next, before send returns
client_send(c, request, status_code) ==
    /\ call' = [call EXCEPT ![c] =
            [call[c] EXCEPT !.sends = Append(@, request),
                            !.responses = Append(@, [status_code |-> status_code,
                                                     request |-> request])]]
    /\ pc' = [pc EXCEPT ![c] = "hook"]
    /\ batch' = [batch EXCEPT ![c] = Sending(c)]
    /\ UNCHANGED <<client, defaults, callers, handler, formatter, normalized, next_uuid, ncalls>>

\* a send that swallows the transport error and is tried again
client_send_fails_retried(c, request) ==
    /\ call' = [call EXCEPT ![c].sends = Append(@, request)]
    /\ batch' = [batch EXCEPT ![c] = Sending(c)]
    /\ UNCHANGED <<client, defaults, callers, handler, formatter, normalized, pc, next_uuid, ncalls>>

\* httpx Client.send of `request` by thread c when no response is obtained:
\* the transport error propagates out of every enclosing send and hook and
\* out of forward_event
client_send_fails(c, request) ==
    /\ Leave(c, Sending(c), [call[c] EXCEPT !.sends = Append(@, request)],
             "TransportError", 0)
    /\ UNCHANGED <<client, defaults, callers, handler, formatter, normalized, next_uuid, ncalls>>

\* forward_event line 205: self._client.post(...), answered
Post(c, status_code) ==
    /\ pc[c] = "post"
    /\ client_send(c, call[c].request, status_code)

\* forward_event line 205: self._client.post(...), transport failure
PostFails(c) ==
    /\ pc[c] = "post"
    /\ client_send_fails(c, call[c].request)

(* --------------------------- _client_retry --------------------------- *)

\* the response the innermost running hook was called with
response(c) == call[c].responses[Len(call[c].responses)]

\* a retry test that also takes 400 for a transient status
should_retry_bad_request(status_code) ==
    /\ status_code \in retry_codes \cup {BAD_REQUEST}
    /\ client.retry_attempt < client.max_retries

\* a retry test that lets the counter reach max_retries and goes on once more
should_retry_once_more(status_code) ==
    status_code \in retry_codes /\ client.retry_attempt <= client.max_retries

\* _client_retry line 110
should_retry(status_code) ==
    status_code \in retry_codes /\ client.retry_attempt < client.max_retries

\* a backoff whose jitter is three times what random.uniform drew
backoff_wide_jitter(jitter) ==
    client.backoff_factor * 2^client.retry_attempt + 3 * jitter

\* _client_retry lines 112-113, with the jitter random.uniform drew
backoff(jitter) == client.backoff_factor * 2^client.retry_attempt + jitter

\* _client_retry lines 110-114: the test passes and the thread sleeps
ClientRetrySleep(c, jitter) ==
    /\ pc[c] = "hook"
    /\ should_retry(response(c).status_code)
    /\ jitter \in 0..client.retry_attempt
    /\ call' = [call EXCEPT ![c].sleeps =
            Append(@, [attempt |-> client.retry_attempt, delay |-> backoff(jitter)])]
    /\ pc' = [pc EXCEPT ![c] = "slept"]
    /\ UNCHANGED <<client, defaults, callers, handler, formatter, normalized, batch, next_uuid, ncalls>>

\* an increment that also doubles the backoff factor in place
ClientRetryIncrement_doubling(c) ==
    /\ pc[c] = "slept"
    /\ client' = [client EXCEPT !.retry_attempt = @ + 1, !.backoff_factor = @ * 2]
    /\ pc' = [pc EXCEPT ![c] = "resend"]
    /\ UNCHANGED <<defaults, callers, handler, formatter, normalized, call, batch, next_uuid, ncalls>>

\* an increment by two
ClientRetryIncrement_twice(c) ==
    /\ pc[c] = "slept"
    /\ client' = [client EXCEPT !.retry_attempt = @ + 2]
    /\ pc' = [pc EXCEPT ![c] = "resend"]
    /\ UNCHANGED <<defaults, callers, handler, formatter, normalized, call, batch, next_uuid, ncalls>>

\* _client_retry line 115
ClientRetryIncrement(c) ==
    /\ pc[c] = "slept"
    /\ client' = [client EXCEPT !.retry_attempt = @ + 1]
    /\ pc' = [pc EXCEPT ![c] = "resend"]
    /\ UNCHANGED <<defaults, callers, handler, formatter, normalized, call, batch, next_uuid, ncalls>>

\* _client_retry line 115 when other threads run between its two halves:
\* `retry_attempt += 1` first reads the counter
ClientRetryLoad(c) ==
    /\ pc[c] = "slept"
    /\ call' = [call EXCEPT ![c].loaded = client.retry_attempt]
    /\ pc' = [pc EXCEPT ![c] = "loaded"]
    /\ UNCHANGED <<client, defaults, callers, handler, formatter, normalized, batch, next_uuid, ncalls>>

\* _client_retry line 115, second half: the value read, plus one, is stored
ClientRetryStore(c) ==
    /\ pc[c] = "loaded"
    /\ client' = [client EXCEPT !.retry_attempt = call[c].loaded + 1]
    /\ pc' = [pc EXCEPT ![c] = "resend"]
    /\ UNCHANGED <<defaults, callers, handler, formatter, normalized, call, batch, next_uuid, ncalls>>

\* a resend that puts a new channel identifier on the request
ClientRetrySend_new_channel(c, status_code) ==
    /\ pc[c] = "resend"
    /\ client_send(c, [response(c).request EXCEPT !.headers = @ + 1], status_code)

\* a resend of an envelope rebuilt with the time of the resend
ClientRetrySend_rebuilt(c, status_code) ==
    /\ pc[c] = "resend"
    /\ client_send(c, [response(c).request EXCEPT
                            !.json = Put(@, "time", FloatStr(MaxWall + 1))],
                   status_code)

\* _client_retry line 116: self._client.send(response.request), answered
ClientRetrySend(c, status_code) ==
    /\ pc[c] = "resend"
    /\ client_send(c, response(c).request, status_code)

\* _client_retry line 116: self._client.send(response.request), transport
\* failure
ClientRetrySendFails(c) ==
    /\ pc[c] = "resend"
    /\ client_send_fails(c, response(c).request)

\* an else branch whose error is that of the first response of the call
ClientRetryElse_first_response(c) ==
    /\ pc[c] = "hook"
    /\ ~should_retry(response(c).status_code)
    /\ client' = [client EXCEPT !.retry_attempt = 0]
    /\ IF is_success(response(c).status_code)
       THEN /\ pc' = [pc EXCEPT ![c] = "posted"]
            /\ UNCHANGED <<call, batch>>
       ELSE Leave(c, batch[c], call[c], "HTTPStatusError", call[c].responses[1].status_code)
    /\ UNCHANGED <<defaults, callers, handler, formatter, normalized, next_uuid, ncalls>>

\* an else branch that leaves the counter alone while another thread's call
\* is under way
ClientRetryElse_isolated(c) ==
    /\ pc[c] = "hook"
    /\ ~should_retry(response(c).status_code)
    /\ client' = IF \E d \in callers \ {c} : pc[d] # "idle"
                 THEN client
                 ELSE [client EXCEPT !.retry_attempt = 0]
    /\ IF is_success(response(c).status_code)
       THEN /\ pc' = [pc EXCEPT ![c] = "posted"]
            /\ UNCHANGED <<call, batch>>
       ELSE Leave(c, batch[c], call[c], "HTTPStatusError", response(c).status_code)
    /\ UNCHANGED <<defaults, callers, handler, formatter, normalized, next_uuid, ncalls>>

\* _client_retry lines 117-119: reset the counter and raise_for_status();
\* without an error the hook returns, and so does every enclosing send
ClientRetryElse(c) ==
    /\ pc[c] = "hook"
    /\ ~should_retry(response(c).status_code)
    /\ client' = [client EXCEPT !.retry_attempt = 0]
    /\ IF is_success(response(c).status_code)
       THEN /\ pc' = [pc EXCEPT ![c] = "posted"]
            /\ UNCHANGED <<call, batch>>
       ELSE Leave(c, batch[c], call[c], "HTTPStatusError", response(c).status_code)
    /\ UNCHANGED <<defaults, callers, handler, formatter, normalized, next_uuid, ncalls>>

\* the response Client.post hands back to forward_event
resp(c) == call[c].responses[1]

\* a return without resp.raise_for_status()
ForwardEventReturn_unchecked(c) ==
    /\ pc[c] = "posted"
    /\ Leave(c, batch[c], call[c], "ok", 0)
    /\ UNCHANGED <<client, defaults, callers, handler, formatter, normalized, next_uuid, ncalls>>

\* forward_event lines 206-207: resp.raise_for_status(); return
ForwardEventReturn(c) ==
    /\ pc[c] = "posted"
    /\ IF is_success(resp(c).status_code)
       THEN Leave(c, batch[c], call[c], "ok", 0)
       ELSE Leave(c, batch[c], call[c], "HTTPStatusError", resp(c).status_code)
    /\ UNCHANGED <<client, defaults, callers, handler, formatter, normalized, next_uuid, ncalls>>

(* --------------------------- forward_events -------------------------- *)

\* a caller invokes forward_events(events, eventtime, timefmt, **kwargs)
ForwardEvents(c, events, eventtime, timefmt, kwargs) ==
    /\ c \in callers
    /\ pc[c] = "idle"
    /\ ncalls < MaxCalls
    /\ batch' = [batch EXCEPT ![c] =
            [NoBatch EXCEPT !.events = events, !.eventtime = eventtime,
                            !.timefmt = timefmt, !.kwargs = kwargs,
                            !.status = "running"]]
    /\ call' = [call EXCEPT ![c] = NoCall]
    /\ pc' = [pc EXCEPT ![c] = "loop"]
    /\ UNCHANGED <<client, defaults, callers, handler, formatter, normalized, next_uuid, ncalls>>

\* forward_events lines 243-245: the next iteration, or the end of the list
ForwardEventsLoop(c, now) ==
    /\ pc[c] = "loop"
    /\ LET b == batch[c]
       IN  IF b.i <= Len(b.events)
           THEN /\ ncalls < MaxCalls
                /\ Enter(c, b, b.events[b.i], b.eventtime[b.events[b.i]],
                         b.timefmt, b.kwargs, now)
                /\ UNCHANGED handler
           ELSE /\ batch' = [batch EXCEPT ![c].status = "ok"]
                /\ pc' = [pc EXCEPT ![c] = "idle"]
                /\ UNCHANGED <<client, defaults, callers, handler, formatter, normalized, call, next_uuid, ncalls>>

(* --------------------------- JsonFormatter --------------------------- *)

\* a Python dict in insertion order: a sequence of items
Item(k, v) == [k |-> k, v |-> v]

Keys(d) == {d[i].k : i \in 1..Len(d)}

\* d[k]
GetItem(d, k) == d[CHOOSE i \in 1..Len(d) : d[i].k = k].v

\* d[k] = v: an existing key keeps its place
SetItem(d, k, v) ==
    IF k \in Keys(d)
    THEN [i \in 1..Len(d) |-> IF d[i].k = k THEN Item(k, v) ELSE d[i]]
    ELSE Append(d, Item(k, v))

\* d.update(**m)
update(d, m) ==
    LET F[i \in 0..Len(m)] ==
            IF i = 0 THEN d ELSE SetItem(F[i - 1], m[i].k, m[i].v)
    IN  F[Len(m)]

\* a map handed to the logger as the message
DictValue(items) == [type |-> "dict", items |-> items]

\* the attributes of a logging.LogRecord the formatter and the handler read;
\* text is a sequence of characters, extra holds host/source/sourcetype/index
LogRecord(msg, args, exc_info, stack_info, created, extra) ==
    [msg |-> msg, args |-> args, levelname |-> <<"I", "N", "F", "O">>,
     name |-> <<"r", "o", "o", "t">>, exc_info |-> exc_info,
     stack_info |-> stack_info, created |-> created, extra |-> extra]

\* `s % args`: the i-th "%s" of s is replaced by the i-th argument
percent_args(s, args) ==
    LET nth(i) == Cardinality({j \in 1..i : s[j] = "%s"})
        F[i \in 0..Len(s)] ==
            IF i = 0 THEN <<>>
            ELSE IF s[i] = "%s" /\ nth(i) <= Len(args)
                 THEN F[i - 1] \o args[nth(i)]
                 ELSE Append(F[i - 1], s[i])
    IN  F[Len(s)]

\* LogRecord.getMessage(): str(msg), with args applied if there are any
getMessage(record) ==
    IF Len(record.args) > 0
    THEN percent_args(record.msg.s, record.args)
    ELSE record.msg.s

\* record.message as format leaves it, lines 69-73, with the text unrendered
record_message_unrendered(record) ==
    IF record.msg.type = "dict" THEN <<>> ELSE record.msg.s

\* record.message as format sets it, lines 69-73
record_message(record) ==
    IF record.msg.type = "dict" THEN <<>> ELSE getMessage(record)

\* record.__dict__ as the templates see it, keyed by the conversion that
\* reads the attribute
record_dict(record) ==
    [x \in {"%(levelname)s", "%(name)s", "%(message)s"} |->
        CASE x = "%(levelname)s" -> record.levelname
          [] x = "%(name)s" -> record.name
          [] x = "%(message)s" -> record_message(record)]

\* `v % record.__dict__`: every conversion of v is replaced by the attribute
percent_dict(v, d) ==
    LET F[i \in 0..Len(v)] ==
            IF i = 0 THEN <<>>
            ELSE IF v[i] \in DOMAIN d
                 THEN F[i - 1] \o d[v[i]]
                 ELSE Append(F[i - 1], v[i])
    IN  F[Len(v)]

\* a loop over the defaults that assigns every default key
insert_defaults_overwrite(json_record, default_keys, d) ==
    LET F[i \in 0..Len(default_keys)] ==
            IF i = 0 THEN json_record
            ELSE SetItem(F[i - 1], default_keys[i].k,
                         StrValue(percent_dict(default_keys[i].v, d)))
    IN  F[Len(default_keys)]

\* format lines 75-77: a default is set only for a key not yet present
insert_defaults(json_record, default_keys, d) ==
    LET F[i \in 0..Len(default_keys)] ==
            IF i = 0 THEN json_record
            ELSE IF default_keys[i].k \notin Keys(F[i - 1])
                 THEN SetItem(F[i - 1], default_keys[i].k,
                              StrValue(percent_dict(default_keys[i].v, d)))
                 ELSE F[i - 1]
    IN  F[Len(default_keys)]

\* what formatException and formatStack return for a record that has them
formatException == StrValue(<<"E">>)
formatStack == StrValue(<<"S">>)

\* format lines 60-77: json_record before it is pruned
json_record_of(default_keys, record) ==
    LET j1 == IF record.exc_info
              THEN SetItem(<<>>, "exception", formatException) ELSE <<>>
        j2 == IF record.stack_info
              THEN SetItem(j1, "stack", formatStack) ELSE j1
        j3 == IF record.msg.type = "dict" THEN update(j2, record.msg.items) ELSE j2
    IN  insert_defaults(j3, default_keys, record_dict(record))

\* a pruning step that drops nothing
prune_nothing(json_record) == json_record

\* format line 80: only the items with a truthy value are kept
prune(json_record) == SelectSeq(json_record, LAMBDA it : Truthy(it.v))

\* json.dumps of a dict: its keys and values written one after the other
json_dumps(d) ==
    [i \in 1..(2 * Len(d)) |->
        IF i % 2 = 1 THEN [key |-> d[(i + 1) \div 2].k]
                     ELSE [value |-> d[i \div 2].v]]

\* json.loads of an object: a dict from its keys to its values
json_loads(text) ==
    LET n == Len(text) \div 2
    IN  [k \in {text[2 * i - 1].key : i \in 1..n} |->
            text[2 * (CHOOSE i \in 1..n : text[2 * i - 1].key = k)].value]

\* JsonFormatter.format
format(default_keys, prune_keys, record) ==
    LET json_record == json_record_of(default_keys, record)
    IN  json_dumps(IF prune_keys THEN prune(json_record) ELSE json_record)

\* JsonFormatter.__init__: prune_keys and **default_keys
JsonFormatter(prune_keys, default_keys) ==
    [default_keys |-> default_keys, prune_keys |-> prune_keys,
     record |-> NoneValue, output |-> <<>>]

\* logging.Formatter is asked to format a record
Format(record) ==
    /\ formatter' = [formatter EXCEPT
            !.record = record,
            !.output = format(formatter.default_keys, formatter.prune_keys, record)]
    /\ UNCHANGED <<client, defaults, callers, pc, call, batch, next_uuid, ncalls,
                   handler, normalized>>

(* ----------------------------- HecHandler ---------------------------- *)

\* HecHandler.__init__ line 37: the flag's value when the caller omits it
DefaultIgnoreExceptions == TRUE

\* the frame of a thread that has not called emit yet
NoEmit == [status |-> "none", error |-> "none", printed |-> "none"]

\* HecHandler.__init__, lines 66 and 80
HecHandler(ignore_exceptions) ==
    [ignore_exceptions |-> ignore_exceptions,
     formatter |-> JsonFormatter(TRUE, <<>>),
     emit |-> [c \in Threads |-> NoEmit]]

\* emit lines 98-106: the overrides the record carries as attributes
hec_args(record) ==
    [k \in FieldKeys \cap DOMAIN record.extra |-> record.extra[k]]

\* emit lines 98-110: thread c logs `record`, the handler formats it and
\* calls forward_event with the record's creation time
Emit(c, record, now) ==
    /\ c \in callers
    /\ pc[c] = "idle"
    /\ handler.emit[c].status # "emitting"
    /\ ncalls < MaxCalls
    /\ LET text == format(handler.formatter.default_keys,
                          handler.formatter.prune_keys, record)
       IN  Enter(c, NoBatch, json_loads(text), record.created, <<>>,
                 hec_args(record), now)
    /\ handler' = [handler EXCEPT !.emit[c] = [NoEmit EXCEPT !.status = "emitting"]]

\* an emit whose except clause lets an invalid timestamp through
EmitReturn_value_error_escapes(c) ==
    /\ handler.emit[c].status = "emitting"
    /\ pc[c] = "idle"
    /\ call[c].outcome \notin {"none", "running"}
    /\ handler' = [handler EXCEPT !.emit[c] =
            IF call[c].outcome = "ok"
            THEN [NoEmit EXCEPT !.status = "returned"]
            ELSE IF handler.ignore_exceptions /\ call[c].outcome # "ValueError"
                 THEN [NoEmit EXCEPT !.status = "returned",
                                     !.printed = call[c].outcome]
                 ELSE [NoEmit EXCEPT !.status = "raised",
                                     !.error = call[c].outcome]]
    /\ UNCHANGED <<client, defaults, callers, pc, call, batch, next_uuid, ncalls,
                   formatter, normalized>>

\* emit lines 109-116: forward_event has returned or raised
EmitReturn(c) ==
    /\ handler.emit[c].status = "emitting"
    /\ pc[c] = "idle"
    /\ call[c].outcome \notin {"none", "running"}
    /\ handler' = [handler EXCEPT !.emit[c] =
            IF call[c].outcome = "ok"
            THEN [NoEmit EXCEPT !.status = "returned"]
            ELSE IF handler.ignore_exceptions
                 THEN [NoEmit EXCEPT !.status = "returned",
                                     !.printed = call[c].outcome]
                 ELSE [NoEmit EXCEPT !.status = "raised",
                                     !.error = call[c].outcome]]
    /\ UNCHANGED <<client, defaults, callers, pc, call, batch, next_uuid, ncalls,
                   formatter, normalized>>

(* ------------------- _parse_timestamp on its own ---------------------- *)

\* no call made yet
NoNormalized ==
    [dt |-> NoneValue, ts |-> 0, by_dt |-> Raised, by_ts |-> Raised,
     by_iso |-> Raised, by_fmt |-> Raised]

\* test_parse_timestamp: the normalizer is called on a wall-clock object, on
\* its epoch value, on its ISO string and on its ISO string with the format
Normalize(dt) ==
    /\ normalized' =
            [dt |-> dt, ts |-> timestamp(dt),
             by_dt |-> parse_timestamp(dt, <<>>),
             by_ts |-> parse_timestamp(FloatValue(timestamp(dt)), <<>>),
             by_iso |-> parse_timestamp(StrValue(isoformat(dt)), <<>>),
             by_fmt |-> parse_timestamp(StrValue(isoformat(dt)), IsoFmt)]
    /\ UNCHANGED <<client, defaults, callers, pc, call, batch, next_uuid, ncalls,
                   handler, formatter>>

(* --------------------------- specifications -------------------------- *)

Walls == 0..MaxWall

\* the event payloads, named in the order the batches list them
EventNames == <<"e1", "e2", "e3", "e4", "e5", "e6", "e7", "e8", "e9">>

Events == {EventNames[i] : i \in 1..MaxBatch}

\* the lists of at most MaxBatch events
EventLists == {SubSeq(EventNames, 1, n) : n \in 0..MaxBatch}

\* every keyword-argument dict over host/source/sourcetype/index
AllKwargs == UNION {[ks -> {"", "x"}] : ks \in SUBSET FieldKeys}

\* every eventtime argument of the model
AllEventTimes ==
    {NoneValue, IntValue(0), IntValue(1), FloatValue(1), StrValue(<<>>),
     StrValue(<<"x">>), StrValue(<<"T">>), ListValue(0), ListValue(1)}
    \cup {DateTime(w) : w \in Walls}
    \cup {StrValue(isoformat(DateTime(w))) : w \in Walls}

AllTimeFmts == {<<>>, IsoFmt}

\* the eventtime arguments of the retry specification
SomeEventTimes == {NoneValue, StrValue(<<"x">>)}

\* the eventtime callables of the retry specification: the current time for
\* every event, or an unparsable string for one event of the list
EventTimeFns ==
    {[e \in Events |-> IF e = bad THEN StrValue(<<"x">>) ELSE NoneValue] :
        bad \in Events \cup {""}}

\* the steps of a running call, the same in every specification
Step(c, statuses) ==
    \/ \E status_code \in statuses : Post(c, status_code)
    \/ PostFails(c)
    \/ \E jitter \in 0..client.max_retries : ClientRetrySleep(c, jitter)
    \/ ClientRetryIncrement(c)
    \/ \E status_code \in statuses : ClientRetrySend(c, status_code)
    \/ ClientRetrySendFails(c)
    \/ ClientRetryElse(c)
    \/ ForwardEventReturn(c)

\* one caller, the default forwarder, every status and transport failure
Init ==
    /\ InitWith({1}, {init_defaults("", "", "", "")})
    /\ handler = HecHandler(DefaultIgnoreExceptions)
    /\ formatter = JsonFormatter(TRUE, <<>>)
    /\ normalized = NoNormalized

Next ==
    \E c \in Threads :
        \/ \E event \in {"e1"}, eventtime \in SomeEventTimes, now \in {1} :
             ForwardEvent(c, event, eventtime, <<>>, EmptyDict, now)
        \/ \E events \in EventLists, eventtime \in EventTimeFns :
             ForwardEvents(c, events, eventtime, <<>>, EmptyDict)
        \/ ForwardEventsLoop(c, 1)
        \/ Step(c, Statuses)

Spec == Init /\ [][Next]_vars

\* one caller, the default forwarder, every eventtime and format; the
\* collector answers 200 or 503, or the transport fails
NextTime ==
    \E c \in Threads :
        \/ \E eventtime \in AllEventTimes, timefmt \in AllTimeFmts :
             \E now \in IF Truthy(eventtime) THEN {1} ELSE Walls :
                ForwardEvent(c, "e1", eventtime, timefmt, EmptyDict, now)
        \/ \E events \in EventLists, eventtime \in [Events -> {NoneValue, ListValue(1)}] :
             ForwardEvents(c, events, eventtime, <<>>, EmptyDict)
        \/ ForwardEventsLoop(c, 1)
        \/ Step(c, {OK, SERVICE_UNAVAILABLE})

SpecTime == Init /\ [][NextTime]_vars

\* one caller, two default configurations, every keyword-argument dict; the
\* collector answers 200 or 503, or the transport fails
SomeDefaults ==
    {init_defaults("", "s", "", "i"), init_defaults("h", "", "t", "")}

InitFields ==
    /\ InitWith({1}, SomeDefaults)
    /\ handler = HecHandler(DefaultIgnoreExceptions)
    /\ formatter = JsonFormatter(TRUE, <<>>)
    /\ normalized = NoNormalized

NextFields ==
    \E c \in Threads :
        \/ \E kwargs \in AllKwargs :
             ForwardEvent(c, "e1", NoneValue, <<>>, kwargs, 1)
        \/ \E events \in EventLists, kwargs \in {EmptyDict, [k \in FieldKeys |-> "x"]} :
             ForwardEvents(c, events, [e \in Events |-> NoneValue], <<>>, kwargs)
        \/ ForwardEventsLoop(c, 1)
        \/ Step(c, {OK, SERVICE_UNAVAILABLE})

SpecFields == InitFields /\ [][NextFields]_vars

\* one caller logs through a HecHandler built with either value of the flag;
\* the record's creation time may have been replaced by a string; the
\* collector answers 200, 400 or 503, or the transport fails
HandlerRecords ==
    {LogRecord(msg, <<>>, FALSE, FALSE, created, extra) :
        msg \in {StrValue(<<"h", "i">>),
                 DictValue(<<Item("message", StrValue(<<"t">>))>>)},
        created \in {FloatValue(1), FloatValue(0), StrValue(<<"x">>)},
        extra \in {EmptyDict, [k \in {"host"} |-> "x"], [k \in FieldKeys |-> "x"]}}

InitHandler ==
    /\ InitWith({1}, {init_defaults("", "", "", "")})
    /\ handler \in {HecHandler(f) : f \in {DefaultIgnoreExceptions, FALSE}}
    /\ formatter = JsonFormatter(TRUE, <<>>)
    /\ normalized = NoNormalized

NextHandler ==
    \E c \in Threads :
        \/ \E record \in HandlerRecords : Emit(c, record, 1)
        \/ EmitReturn(c)
        \/ Step(c, {OK, BAD_REQUEST, SERVICE_UNAVAILABLE})

SpecHandler == InitHandler /\ [][NextHandler]_vars

\* the default keys of test_readme_format and one whose template is empty
TestDefaultKeys ==
    <<Item("level", <<"%(levelname)s">>), Item("name", <<"%(name)s">>),
      Item("message", <<"%(message)s">>), Item("tag", <<>>)>>

\* every selection of the default keys, in their order
DefaultKeyChoices ==
    {SelectSeq(TestDefaultKeys, LAMBDA it : it.k \in ks) :
        ks \in SUBSET {"level", "name", "message", "tag"}}

\* the messages of the log calls: texts, with and without arguments, and maps
TextMessages ==
    {<<StrValue(<<"h", "i">>), <<>>>>,
     <<StrValue(<<"h", "%s">>), <<(<<"x">>)>>>>,
     <<StrValue(<<>>), <<>>>>}

MapMessages ==
    {<<DictValue(m), <<>>>> : m \in
        {<<Item("a", IntValue(1)), Item("b", IntValue(2))>>,
         <<Item("a", IntValue(1)), Item("c", StrValue(<<>>))>>,
         <<Item("hello", StrValue(<<"w">>)), Item("message", StrValue(<<"m">>)),
           Item("name", StrValue(<<"q">>))>>,
         <<Item("message", StrValue(<<>>))>>,
         <<Item("a", IntValue(0))>>,
         <<Item("exception", StrValue(<<"x">>))>>}}

FormatterRecords ==
    {LogRecord(m[1], m[2], exc_info, stack_info, FloatValue(1), EmptyDict) :
        m \in TextMessages \cup MapMessages,
        exc_info \in BOOLEAN, stack_info \in BOOLEAN}

\* a formatter of any configuration formats any record, and the normalizer
\* is called on the representations of any wall-clock reading
InitPure ==
    /\ InitWith({1}, {init_defaults("", "", "", "")})
    /\ handler = HecHandler(DefaultIgnoreExceptions)
    /\ formatter \in {JsonFormatter(prune_keys, default_keys) :
                        prune_keys \in BOOLEAN, default_keys \in DefaultKeyChoices}
    /\ normalized = NoNormalized

NextPure ==
    \/ \E record \in FormatterRecords : Format(record)
    \/ \E w \in Walls : Normalize(DateTime(w))

SpecPure == InitPure /\ [][NextPure]_vars


\* a forwarder used by one caller or shared by two threads that each make
\* one forward_event call, thread 1 being the one that calls first; the
\* threads' steps interleave freely, the increment of the counter in two
\* halves; the collector answers 200 or 503; the jitter drawn is the
\* smallest or the largest that random.uniform can return
InitShared ==
    /\ InitWith({1}, {init_defaults("", "", "", "")}) \/
       InitWith(Threads, {init_defaults("", "", "", "")})
    /\ handler = HecHandler(DefaultIgnoreExceptions)
    /\ formatter = JsonFormatter(TRUE, <<>>)
    /\ normalized = NoNormalized

NextShared ==
    \E c \in Threads :
        \/ /\ call[c].outcome = "none"
           /\ \A d \in Threads : d < c => call[d].outcome # "none"
           /\ ForwardEvent(c, "e1", NoneValue, <<>>, EmptyDict, 1)
        \/ \E status_code \in {OK, SERVICE_UNAVAILABLE} : Post(c, status_code)
        \/ \E jitter \in {0, client.retry_attempt} : ClientRetrySleep(c, jitter)
        \/ ClientRetryLoad(c)
        \/ ClientRetryStore(c)
        \/ \E status_code \in {OK, SERVICE_UNAVAILABLE} :
             /\ Len(call[c].sends) < MaxSends
             /\ ClientRetrySend(c, status_code)
        \/ ClientRetryElse(c)
        \/ ForwardEventReturn(c)

SpecShared == InitShared /\ [][NextShared]_vars

(* ------------------------------ claims ------------------------------- *)

Errors == {"ValueError", "HTTPStatusError", "TransportError"}

\* thread c has a forward_event call that has ended
Ended(c) == call[c].outcome \in Errors \cup {"ok"}

\* the statuses of the responses the call of thread c received, in order
StatusSeq(c) == [i \in 1..Len(call[c].responses) |-> call[c].responses[i].status_code]

\* no thread is inside forward_event
NoCallInProgress == \A c \in Threads : pc[c] \in {"idle", "loop"}

\* C1: a call whose responses are one or more retryable statuses followed by
\* a success status returns normally, without an error.
C1_TransientFailuresInvisible ==
    \A c \in callers :
        LET st == StatusSeq(c)
            n == Len(st)
        IN  ( /\ Ended(c)
              /\ n >= 2
              /\ n <= client.max_retries + 1
              /\ Len(call[c].sends) = n
              /\ \A i \in 1..(n - 1) : st[i] \in retry_codes
              /\ is_success(st[n]) )
            => call[c].outcome = "ok"

\* C2: a call all of whose responses are retryable statuses fails with
\* HTTPStatusError after exactly max_retries + 1 sends, whatever calls
\* preceded it.
C2_ExhaustedAfterMaxRetriesPlusOne ==
    \A c \in callers :
        LET st == StatusSeq(c)
        IN  ( /\ Ended(c)
              /\ Len(st) >= 1
              /\ Len(call[c].sends) = Len(st)
              /\ \A i \in 1..Len(st) : st[i] \in retry_codes )
            => /\ call[c].outcome = "HTTPStatusError"
               /\ Len(call[c].sends) = client.max_retries + 1

\* C3: whenever no forward_event call is in progress the retry counter is 0.
C3_CounterZeroBetweenCalls ==
    NoCallInProgress => client.retry_attempt = 0

\* C4: when the first response is 200 the call returns normally, when it is
\* 400 the call fails with HTTPStatusError; either way exactly one request is
\* sent, no backoff sleep happens and the retry counter is 0 afterwards.
C4_FirstResponseTerminal ==
    \A c \in callers :
        LET st == StatusSeq(c)
            f == call[c]
        IN  (Len(st) >= 1 /\ st[1] \in {OK, BAD_REQUEST}) =>
               /\ Len(f.sends) = 1
               /\ f.sleeps = <<>>
               /\ pc[c] \notin {"slept", "resend"}
               /\ f.outcome \in {"running", IF st[1] = OK THEN "ok" ELSE "HTTPStatusError"}
               /\ Ended(c) => /\ client.retry_attempt = 0
                              /\ f.error = (IF st[1] = OK THEN 0 ELSE BAD_REQUEST)

\* a call answered 400 at once has ended, on a forwarder whose counter an
\* earlier call had left above 0
C4_Witness ==
    \E c \in callers :
        /\ Ended(c)
        /\ StatusSeq(c) = <<BAD_REQUEST>>
        /\ call[c].attempt0 > 0

\* C5: a transport failure of any send of a call, the first send or a
\* resend, makes the call fail with the transport error, and that send is the
\* last one made for the call.
C5_TransportErrorEndsCall ==
    \A c \in callers :
        LET f == call[c]
        IN  /\ Len(f.sends) \in {Len(f.responses), Len(f.responses) + 1}
            /\ (Len(f.sends) = Len(f.responses) + 1) <=> (f.outcome = "TransportError")
            /\ f.outcome = "TransportError" =>
                  /\ pc[c] = "idle"
                  /\ batch[c].status \in {"none", "TransportError"}

\* a call has failed with the transport error of a resend
C5_Witness ==
    \E c \in callers :
        /\ call[c].outcome = "TransportError"
        /\ Len(call[c].responses) >= 2

\* C6 as stated: no two sends made for the same call carry the same channel
\* identifier.
C6_ChannelNeverReusedAcrossRetries ==
    \A c \in callers :
        \A i, j \in 1..Len(call[c].sends) :
            i # j => call[c].sends[i].headers # call[c].sends[j].headers

\* C6 amended: every send made for a call, the original send and each
\* resend, carries the one channel identifier generated for that call, and
\* the identifier generated for a call is one no earlier call was given.
C6_ChannelFixedPerCall ==
    /\ [](\A c \in callers :
            \A i \in 1..Len(call[c].sends) :
                /\ call[c].sends[i].headers = call[c].request.headers
                /\ call[c].request.headers >= 1
                /\ call[c].request.headers < next_uuid)
    /\ [][\A c \in callers :
            (call'[c].request # NoRequest /\ call'[c].request # call[c].request)
                => /\ call'[c].request.headers = next_uuid
                   /\ next_uuid' > next_uuid]_vars

\* the second call of a forwarder has resent its request
C6_Witness ==
    \E c \in callers :
        /\ Len(call[c].sends) >= 3
        /\ call[c].request.headers = 2

\* the eventtime is of an unsupported type or a string that does not parse
InvalidTimestampInput(eventtime, timefmt) ==
    \/ eventtime.type \notin {"NoneType", "datetime", "int", "float", "str"}
    \/ eventtime.type = "str" /\ ~parse_timestamp(eventtime, timefmt).ok

\* C7: when the eventtime is of an unsupported type or an unparsable string
\* the call fails with ValueError before any request is sent: no send, no
\* sleep, and the retry counter as the call found it.
C7_InvalidTimestampFailsBeforeSend ==
    \A c \in callers :
        LET f == call[c]
        IN  (f.outcome # "none" /\ InvalidTimestampInput(f.eventtime, f.timefmt)) =>
               /\ f.outcome = "ValueError"
               /\ f.sends = <<>>
               /\ f.sleeps = <<>>
               /\ client.retry_attempt = f.attempt0

\* the effective value of field k for the call of thread c
EffectiveValue(c, k) ==
    IF k \in DOMAIN call[c].kwargs THEN call[c].kwargs[k] ELSE defaults[k]

\* C8: every envelope sent has the keys event and time, and has the key
\* host, source, sourcetype or index exactly when the effective value of that
\* field (the per-call value if supplied, else the default) is non-empty.
C8_EnvelopeKeys ==
    \A c \in callers :
        \A i \in 1..Len(call[c].sends) :
            LET hec_event == call[c].sends[i].json
            IN  /\ {"event", "time"} \subseteq DOMAIN hec_event
                /\ DOMAIN hec_event \subseteq {"event", "time"} \cup FieldKeys
                /\ \A k \in FieldKeys :
                      /\ (k \in DOMAIN hec_event) <=> (EffectiveValue(c, k) # "")
                      /\ k \in DOMAIN hec_event => hec_event[k] = EffectiveValue(c, k)

\* an envelope was sent for a call that blanked a non-empty default and set a
\* field whose default is empty
C8_Witness ==
    \E c \in callers :
        /\ Len(call[c].sends) >= 2
        /\ "source" \in DOMAIN call[c].kwargs
        /\ call[c].kwargs["source"] = ""
        /\ defaults.source # ""
        /\ "sourcetype" \in DOMAIN call[c].kwargs
        /\ call[c].kwargs["sourcetype"] # ""
        /\ defaults.sourcetype = ""

\* C9: forward_events forwards the events one at a time in input order; when
\* forwarding event i fails the batch fails with that error at that point,
\* every earlier event has had its sends, and nothing is sent for a later one.
C9_BatchStopsAtFirstFailure ==
    \A c \in callers :
        LET b == batch[c]
            n == Len(b.sent)
        IN  /\ \A j \in 1..n : b.sent[j] <= b.i /\ b.sent[j] <= Len(b.events)
            /\ \A j \in 2..n : b.sent[j - 1] <= b.sent[j]
            /\ \A k \in 1..(b.i - 1) : \E j \in 1..n : b.sent[j] = k
            /\ b.status = "running" => call[c].outcome \notin Errors
            /\ b.status \in Errors =>
                  /\ pc[c] = "idle"
                  /\ b.i <= Len(b.events)
                  /\ call[c].outcome = b.status
                  /\ call[c].event = b.events[b.i]

\* a batch of three events has failed at its second event, after sends for
\* the first and the second
C9_Witness ==
    \E c \in callers :
        /\ batch[c].status = "HTTPStatusError"
        /\ Len(batch[c].events) = 3
        /\ batch[c].i = 2
        /\ Len(batch[c].sent) >= 3

\* C10: no step of forward_event or forward_events changes the default
\* host/source/sourcetype/index, max_retries or backoff_factor; of the
\* connection state only the retry counter changes.
C10_DefaultsAndBudgetImmutable ==
    [][/\ defaults' = defaults
       /\ client'.max_retries = client.max_retries
       /\ client'.backoff_factor = client.backoff_factor]_vars

\* a call that overrode all four fields has ended after retries, with the
\* retry counter changed
C10_Witness ==
    \E c \in callers :
        /\ Ended(c)
        /\ DOMAIN call[c].kwargs = FieldKeys
        /\ Len(call[c].sends) >= 2
        /\ client.retry_attempt > 0

\* C11 as stated: every eventtime the caller supplies (anything but None),
\* numeric 0 and the empty string included, is itself what the normalizer
\* gets: the call fails with ValueError exactly when the normalizer rejects
\* the supplied value, and otherwise the envelope's time is the supplied
\* value normalized.
C11_SuppliedEventtimeIsNormalized ==
    \A c \in callers :
        (call[c].outcome # "none" /\ call[c].eventtime.type # "NoneType") =>
            LET parsed == parse_timestamp(call[c].eventtime, call[c].timefmt)
            IN  IF parsed.ok
                THEN /\ call[c].outcome # "ValueError"
                     /\ call[c].request.json["time"] = FloatStr(parsed.v)
                ELSE call[c].outcome = "ValueError"

Formatted == "msg" \in DOMAIN formatter.record

\* the JSON object the formatter put out
Output == json_loads(formatter.output)

\* the formatter has formatted a map-valued log call
FormattedMap == Formatted /\ formatter.record.msg.type = "dict"

C14_Pruning ==
    Formatted =>
        LET json_record == json_record_of(formatter.default_keys, formatter.record)
            kept == {k \in Keys(json_record) : Truthy(GetItem(json_record, k))}
        IN  /\ \A k \in DOMAIN Output : Output[k] = GetItem(json_record, k)
            /\ IF formatter.prune_keys
               THEN /\ DOMAIN Output = kept
                    /\ \A k \in DOMAIN Output : Truthy(Output[k])
                    /\ (FormattedMap /\ "message" \notin Keys(formatter.record.msg.items))
                            => "message" \notin DOMAIN Output
               ELSE /\ DOMAIN Output = Keys(json_record)
                    /\ FormattedMap =>
                         /\ Keys(formatter.record.msg.items) \subseteq DOMAIN Output
                         /\ ( /\ "message" \in Keys(formatter.default_keys)
                              /\ "message" \notin Keys(formatter.record.msg.items) )
                                => Output["message"] = StrValue(<<>>)

\* a pruning formatter that declares `message` has formatted a map with an
\* empty-valued key: that key and `message` are gone, the other key is kept
C14_Witness ==
    /\ FormattedMap
    /\ formatter.prune_keys
    /\ "message" \in Keys(formatter.default_keys)
    /\ Keys(formatter.record.msg.items) = {"a", "c"}
    /\ "a" \in DOMAIN Output
    /\ "c" \notin DOMAIN Output
    /\ "message" \notin DOMAIN Output

\* the formatter has formatted a free-text log call whose rendered text is
\* not empty
FormattedText ==
    /\ Formatted
    /\ formatter.record.msg.type = "str"
    /\ Len(getMessage(formatter.record)) > 0

\* C15 as stated: for every formatter configuration the output of a
\* free-text log call with non-empty rendered text has a `message` key that
\* holds the rendered text.
C15_TextMessageAlwaysPresent ==
    FormattedText =>
        /\ "message" \in DOMAIN Output
        /\ Output["message"] = StrValue(getMessage(formatter.record))

\* C15 amended: for every formatter configuration that declares the default
\* key `message` with the template %(message)s, the output of a free-text
\* log call with non-empty rendered text has a `message` key that holds the
\* rendered text; without that default the output has no `message` key.
C15_DeclaredMessageHoldsText ==
    FormattedText =>
        IF "message" \notin Keys(formatter.default_keys)
        THEN "message" \notin DOMAIN Output
        ELSE GetItem(formatter.default_keys, "message") = <<"%(message)s">> =>
                /\ "message" \in DOMAIN Output
                /\ Output["message"] = StrValue(getMessage(formatter.record))

\* a text with an argument was formatted by a formatter that declares
\* `message`: the output's message is the text with the argument applied
C15_Witness ==
    /\ FormattedText
    /\ Len(formatter.record.args) > 0
    /\ "message" \in DOMAIN Output
    /\ Output["message"] = StrValue(<<"h", "x">>)

C17_ResendIsIdenticalRequest ==
    /\ [](\A c \in callers :
            /\ \A i \in 1..Len(call[c].sends) : call[c].sends[i] = call[c].request
            /\ \A i \in 1..Len(call[c].responses) :
                    call[c].responses[i].request = call[c].request)
    /\ [][\A c \in callers :
            call'[c].request # call[c].request => call'[c].sends = <<>>]_vars

\* a call has sent its request max_retries + 1 times
C17_Witness ==
    \E c \in callers :
        /\ Len(call[c].sends) = client.max_retries + 1
        /\ "time" \in DOMAIN call[c].request.json

\* the number of leading retryable statuses of a sequence of statuses
LeadingRetryable(st) ==
    Cardinality({i \in 1..Len(st) : \A j \in 1..i : st[j] \in retry_codes})

\* C18: the i-th response of a call is followed by a resend exactly when its
\* status is one of 408, 429, 500, 503 and the counter, then attempt0 + i - 1,
\* is below max_retries; so a call that started with the counter at 0 and got
\* as far as sending makes min(k, max_retries) + 1 sends, k being the number
\* of leading retryable responses.
C18_ResendIffRetryableBelowBudget ==
    \A c \in callers :
        LET f == call[c]
            st == StatusSeq(c)
            n == Len(st)
            k == LeadingRetryable(st)
            Decided(i) == i < n \/ pc[c] # "hook"
            Resent(i) == i < Len(f.sends) \/ (i = n /\ pc[c] \in {"slept", "resend"})
        IN  /\ \A i \in 1..n :
                Decided(i) =>
                    ( Resent(i) <=>
                        /\ st[i] \in retry_codes
                        /\ f.attempt0 + (i - 1) < client.max_retries )
            /\ (Ended(c) /\ f.attempt0 = 0 /\ f.outcome # "ValueError") =>
                    Len(f.sends) =
                        (IF k < client.max_retries THEN k ELSE client.max_retries) + 1

\* a call that started with the counter at 0 was answered 503, 503, 200 and
\* made three sends
C18_Witness ==
    \E c \in callers :
        /\ Ended(c)
        /\ call[c].attempt0 = 0
        /\ StatusSeq(c) = <<SERVICE_UNAVAILABLE, SERVICE_UNAVAILABLE, OK>>
        /\ Len(call[c].sends) = 3

\* C19 as stated: each resend is preceded by exactly one sleep, taken before
\* the counter is incremented, of backoff_factor * 2^a plus a jitter in
\* [0, a] for the counter value a; the delays of one call are 1, then within
\* [2, 3], then within [4, 6]; there is no sleep before the first send or
\* after the last response.
C19_BackoffDelays ==
    \A c \in callers :
        LET f == call[c]
            resends == IF Len(f.sends) = 0 THEN 0 ELSE Len(f.sends) - 1
        IN  /\ Len(f.sleeps) =
                    resends + (IF pc[c] \in {"slept", "resend"} THEN 1 ELSE 0)
            /\ pc[c] = "slept" =>
                    f.sleeps[Len(f.sleeps)].attempt = client.retry_attempt
            /\ \A j \in 1..Len(f.sleeps) :
                    LET a == f.sleeps[j].attempt
                        d == f.sleeps[j].delay
                    IN  /\ d >= client.backoff_factor * 2^a
                        /\ d <= client.backoff_factor * 2^a + a
                        /\ d >= 2^(j - 1)
                        /\ d <= 2^(j - 1) + (j - 1)

\* C20: the policy has run on the last response of every ended call that got
\* one, resend or not (the counter is back at 0), and a call that failed with
\* its retries exhausted, its last response being a retryable status no
\* resend followed, carries the error of that last response.
C20_ErrorOfFinalAttempt ==
    \A c \in callers :
        LET f == call[c]
            st == StatusSeq(c)
            n == Len(st)
        IN  /\ (n >= 1 /\ Len(f.sends) = n /\ (Ended(c) \/ pc[c] = "posted"))
                    => client.retry_attempt = 0
            /\ (Ended(c) /\ n >= 1 /\ Len(f.sends) = n /\ st[n] \in retry_codes) =>
                    /\ f.outcome = "HTTPStatusError"
                    /\ f.error = st[n]
                    /\ f.attempt0 + (n - 1) = client.max_retries

\* a call has failed after four sends, the last answered with another
\* retryable status than the first
C20_Witness ==
    \E c \in callers :
        /\ Ended(c)
        /\ Len(call[c].sends) = 4
        /\ Len(call[c].responses) = 4
        /\ call[c].responses[1].status_code # call[c].responses[4].status_code
        /\ call[c].error = call[c].responses[4].status_code

\* C21: on a forwarder shared by two callers the counter is one field that
\* every call tests, increments and resets: a thread that passes the test
\* read the shared value below max_retries, the increment stores the value
\* it read plus one whatever the counter is by then, and a call's else branch
\* sets the counter to 0 whatever the other call is doing; so the counter can
\* pass max_retries, by no more than the other caller's pending increment.
C21_CounterSharedAcrossCalls ==
    /\ [](/\ client.retry_attempt >= 0
          /\ client.retry_attempt <= client.max_retries + Cardinality(callers) - 1)
    /\ [][\A c \in callers :
            /\ (pc[c] = "hook" /\ pc'[c] = "slept") =>
                    /\ client.retry_attempt < client.max_retries
                    /\ call'[c].sleeps[Len(call'[c].sleeps)].attempt = client.retry_attempt
            /\ (pc[c] = "loaded" /\ pc'[c] = "resend") =>
                    client'.retry_attempt = call[c].loaded + 1
            /\ (pc[c] = "hook" /\ pc'[c] \in {"posted", "idle"}) =>
                    client'.retry_attempt = 0]_vars

\* one of two concurrent calls has sent more than max_retries + 1 requests
\* and the counter is above max_retries: the other call has ended, and the
\* counter this call slept with went down between two of its retries
C21_Witness ==
    \E c \in callers, d \in callers :
        /\ c # d
        /\ Ended(d)
        /\ Len(call[c].sends) > client.max_retries + 1
        /\ client.retry_attempt > client.max_retries
        /\ \E j \in 1..(Len(call[c].sleeps) - 1) :
                call[c].sleeps[j + 1].attempt < call[c].sleeps[j].attempt

\* C22: on a forwarder used by one caller the counter is within
\* 0..max_retries in every state and no call sends more than
\* max_retries + 1 requests.
C22_CounterAndSendsBounded ==
    /\ client.retry_attempt >= 0
    /\ client.retry_attempt <= client.max_retries
    /\ \A c \in Threads : Len(call[c].sends) <= client.max_retries + 1

\* a call that found the counter above 0 has used up what was left of the
\* budget: the counter is at max_retries
C22_Witness ==
    \E c \in callers :
        /\ call[c].attempt0 > 0
        /\ client.retry_attempt = client.max_retries
        /\ Len(call[c].sends) = client.max_retries + 1 - call[c].attempt0

\* C23: a call that returned normally got a success status for the request
\* it posted, and every response received for it had a success status.
C23_NoFalseSuccess ==
    \A c \in callers :
        call[c].outcome = "ok" =>
            /\ Len(call[c].responses) >= 1
            /\ Len(call[c].sends) = Len(call[c].responses)
            /\ is_success(call[c].responses[1].status_code)
            /\ \A i \in 1..Len(call[c].responses) :
                    is_success(call[c].responses[i].status_code)

\* a call has returned normally on a forwarder whose counter an earlier
\* call had left above 0
C23_Witness ==
    \E c \in callers :
        /\ call[c].outcome = "ok"
        /\ call[c].attempt0 > 0

\* the delays of the sleeps of thread c's call, in order, never go down
NonDecreasingDelays(c) ==
    \A j \in 1..(Len(call[c].sleeps) - 1) :
        call[c].sleeps[j].delay <= call[c].sleeps[j + 1].delay

\* the largest delay at counter a is at most the smallest at a + 1
DelayWindowsOrdered ==
    \A a \in 0..(client.max_retries - 1) :
        client.backoff_factor * 2^a + a <= client.backoff_factor * 2^(a + 1)

\* C24 as stated: within one forward_event call the backoff delays never go
\* down from one retry to the next, whatever jitter is drawn, the largest
\* delay at counter a being at most the smallest at a + 1.
C24_DelaysNonDecreasing ==
    /\ DelayWindowsOrdered
    /\ \A c \in callers : NonDecreasingDelays(c)

\* C24 amended: the largest delay at counter a is at most the smallest at
\* a + 1, so the delays of a call never go down on a forwarder used by one
\* caller, and on a shared forwarder they never go down between two retries
\* of a call that found the counter one higher at the second.
C24_DelaysNonDecreasingOneCaller ==
    /\ DelayWindowsOrdered
    /\ Cardinality(callers) = 1 => \A c \in callers : NonDecreasingDelays(c)
    /\ \A c \in callers :
        \A j \in 1..(Len(call[c].sleeps) - 1) :
            call[c].sleeps[j + 1].attempt = call[c].sleeps[j].attempt + 1
                => call[c].sleeps[j].delay <= call[c].sleeps[j + 1].delay

\* the only caller of a forwarder has slept three times in one call, the
\* second time with the largest jitter and the third with the smallest
C24_Witness ==
    \E c \in callers :
        /\ callers = {c}
        /\ Len(call[c].sleeps) = 3
        /\ call[c].sleeps[2].delay = 3
        /\ call[c].sleeps[3].delay = 4

====
